---- MODULE Spec2Model ----
(***************************************************************************)
(* Model of the MS5805 pressure/temperature sensor driver (class ms5805).  *)
(* The driver object holds the resolution, the coefficient table and the   *)
(* coeff_read flag.  Every public method is one action; the I2C transport  *)
(* (Wire) and the device are the environment: the status of every          *)
(* endTransmission() and the bytes of every read are inputs of the action. *)
(* The exchanges of the last public call are kept in the variable bus.     *)
(***************************************************************************)
EXTENDS Integers, Sequences, FiniteSets, TLC

VARIABLES
    eeprom_coeff,           \* uint16_t eeprom_coeff[MS5805_COEFFICIENT_COUNT + 1]
    coeff_read,             \* bool coeff_read
    ms5805_resolution_osr,  \* enum ms5805_resolution_osr (an int)
    stored,                 \* history: indexes of eeprom_coeff written by read_eeprom_coeff
    call,                   \* the last public method called
    ret,                    \* what it returned
    bus,                    \* the bus exchanges and waits it performed, in order
    n_prom,                 \* crc_check harness: the table passed to crc_check / left by it
    n_prom_in,              \* crc_check harness: the table as it was before the last call
    crc_base,               \* crc_check harness: the accepted table n_prom was derived from
    crc_flip,               \* crc_check harness: the bit flipped in crc_base, or -1
    crc_arg,                \* crc_check harness: the crc argument of the last call
    crc_ok,                 \* crc_check harness: the result of the last call, "true" or
                            \* "false", or "none"
    temperature,            \* the caller's float that read_temperature_and_pressure is
                            \* given the address of
    pressure,               \* likewise
    comp_in,                \* compensation harness: coefficients and raw ADC values
    comp                    \* compensation harness: every integer the compensation computes

driver_vars == <<eeprom_coeff, coeff_read, ms5805_resolution_osr, stored, call, ret, bus>>
crc_vars == <<n_prom, n_prom_in, crc_base, crc_flip, crc_arg, crc_ok>>
out_vars == <<temperature, pressure>>
comp_vars == <<comp_in, comp>>
vars == <<eeprom_coeff, coeff_read, ms5805_resolution_osr, stored, call, ret, bus,
          n_prom, n_prom_in, crc_base, crc_flip, crc_arg, crc_ok,
          temperature, pressure, comp_in, comp>>

----------------------------------------------------------------------------
(* Program constants *)

MS5805_ADDR == 118
MS5805_RESET_COMMAND == 30
MS5805_START_PRESSURE_ADC_CONVERSION == 64
MS5805_START_TEMPERATURE_ADC_CONVERSION == 80
MS5805_READ_ADC == 0
MS5805_CONVERSION_OSR_MASK == 15
MS5805_PROM_ADDRESS_READ_ADDRESS_0 == 160

MS5805_CRC_INDEX == 0
MS5805_PRESSURE_SENSITIVITY_INDEX == 1
MS5805_PRESSURE_OFFSET_INDEX == 2
MS5805_TEMP_COEFF_OF_PRESSURE_SENSITIVITY_INDEX == 3
MS5805_TEMP_COEFF_OF_PRESSURE_OFFSET_INDEX == 4
MS5805_REFERENCE_TEMPERATURE_INDEX == 5
MS5805_TEMP_COEFF_OF_TEMPERATURE_INDEX == 6

MS5805_COEFFICIENT_COUNT == 7

\* enum ms5805_status
ms5805_status_ok == "ms5805_status_ok"
ms5805_status_no_i2c_acknowledge == "ms5805_status_no_i2c_acknowledge"
ms5805_status_i2c_transfer_error == "ms5805_status_i2c_transfer_error"
ms5805_status_crc_error == "ms5805_status_crc_error"

\* enum ms5805_status_code: the transport statuses the driver names
ms5805_STATUS_OK == 0
ms5805_STATUS_ERR_OVERFLOW == 1
ms5805_STATUS_ERR_TIMEOUT == 4

\* uint32_t conversion_time[6]
conversion_time == [i \in 0..5 |-> <<1, 2, 3, 5, 9, 17>>[i + 1]]

\* enum ms5805_resolution_osr: ms5805_resolution_osr_256 .. ms5805_resolution_osr_8192
ResolutionOsr == 0..5

----------------------------------------------------------------------------
(* Bit operations on naturals *)

RECURSIVE BitXor(_, _)
BitXor(a, b) ==
    IF a = 0 THEN b
    ELSE IF b = 0 THEN a
    ELSE (((a % 2) + (b % 2)) % 2) + 2 * BitXor(a \div 2, b \div 2)

RECURSIVE BitAnd(_, _)
BitAnd(a, b) ==
    IF a = 0 \/ b = 0 THEN 0
    ELSE ((a % 2) * (b % 2)) + 2 * BitAnd(a \div 2, b \div 2)

BitOr(a, b) == a + b - BitAnd(a, b)

\* x ^ w for w a single bit (a power of two)
XorBit(x, w) == IF (x \div w) % 2 = 1 THEN x - w ELSE x + w

ToUint8(x) == x % 256
ToUint16(x) == x % 65536

----------------------------------------------------------------------------
(* boolean ms5805::crc_check(uint16_t *n_prom, uint8_t crc) *)

\* n_prom[MS5805_COEFFICIENT_COUNT] = 0; n_prom[0] = (0x0FFF & (n_prom[0]));
crc_prepare(prom) ==
    [prom EXCEPT ![MS5805_COEFFICIENT_COUNT] = 0, ![0] = prom[0] % 4096]

\* Get next byte
crc_next_byte(prom, cnt) ==
    IF (cnt % 2) = 1 THEN prom[cnt \div 2] % 256 ELSE prom[cnt \div 2] \div 256

\* One pass of the inner loop body, with the faulty variant that drops the polynomial
crc_shift_no_poly(n_rem) == ToUint16(n_rem * 2)

\* n_rem & 0x8000 is the top bit of the 16-bit n_rem
crc_shift(n_rem) ==
    IF (n_rem \div 32768) % 2 = 1
    THEN XorBit(XorBit(ToUint16(n_rem * 2), 4096), 8192)   \* ^ 0x3000
    ELSE ToUint16(n_rem * 2)

\* for (n_bit = 8; n_bit > 0; n_bit--): the loop body, eight times
crc_bits(n_rem) ==
    LET s1 == crc_shift(n_rem)
        s2 == crc_shift(s1)
        s3 == crc_shift(s2)
        s4 == crc_shift(s3)
        s5 == crc_shift(s4)
        s6 == crc_shift(s5)
        s7 == crc_shift(s6)
    IN  crc_shift(s7)

\* for (cnt = 0; cnt < (MS5805_COEFFICIENT_COUNT + 1) * 2; cnt++)
RECURSIVE crc_bytes(_, _, _)
crc_bytes(prom, cnt, n_rem) ==
    IF cnt < (MS5805_COEFFICIENT_COUNT + 1) * 2
    THEN LET after == crc_bits(BitXor(n_rem, crc_next_byte(prom, cnt)))
         IN  IF after \in Nat THEN crc_bytes(prom, cnt + 1, after) ELSE after
    ELSE n_rem

\* n_prom[0] = crc_read;  and the faulty variant that forgets it
crc_restore_forgotten(prom, crc_read) == prom

crc_restore(prom, crc_read) == [prom EXCEPT ![0] = crc_read]

\* The result and the table as the call leaves it
crc_check(prom, crc) ==
    LET crc_read == prom[0]
        work == crc_prepare(prom)
        n_rem == crc_bytes(work, 0, 0) \div 4096
    IN  [ok |-> (n_rem = crc), n_prom |-> crc_restore(work, crc_read)]

\* The crc argument read_eeprom passes: (eeprom_coeff[MS5805_CRC_INDEX] & 0xF000) >> 12
crc_of_word0(prom) == (prom[MS5805_CRC_INDEX] - (prom[MS5805_CRC_INDEX] % 4096)) \div 4096

----------------------------------------------------------------------------
(* The PROM contents of the devices considered *)

Words(t) == [i \in 0..(Len(t) - 1) |-> t[i + 1]]

\* The 7 PROM words of a device: the data sheet's coefficients with the matching CRC
\* nibble, and the same with one bit of word 6 flipped
GoodProm == Words(<<55996, 46372, 43981, 29059, 27842, 31553, 28165>>)
BadProm == Words(<<55996, 46372, 43981, 29059, 27842, 31553, 28169>>)
PromTables == {GoodProm, BadProm}

\* The value of a table word no statement has assigned yet
IndeterminateWord == 42405

\* The tables a complete load can hand to crc_check, and crc_check of each as
\* read_eeprom calls it (evaluated once per table)
LoadedTables ==
    {[i \in 0..MS5805_COEFFICIENT_COUNT |->
        IF i < MS5805_COEFFICIENT_COUNT THEN t[i] ELSE last] :
        t \in PromTables, last \in {0, IndeterminateWord}}

crc_check_loaded == [t \in LoadedTables |-> crc_check(t, crc_of_word0(t))]

\* crc_check(eeprom_coeff, ..) as read_eeprom calls it, and the faulty variant that
\* accepts every table
crc_check_eeprom_accepts(coeffs) == [ok |-> TRUE, n_prom |-> coeffs]

crc_check_eeprom(coeffs) ==
    IF coeffs \in DOMAIN crc_check_loaded
    THEN crc_check_loaded[coeffs]
    ELSE crc_check(coeffs, crc_of_word0(coeffs))

----------------------------------------------------------------------------
(* The transport: what one public call did on the bus *)

\* Wire.beginTransmission(MS5805_ADDR); Wire.write(byte); st = Wire.endTransmission()
BusWrite(byte, st) ==
    [op |-> "write", addr |-> MS5805_ADDR, arg |-> byte, st |-> st, data |-> <<>>]
\* Wire.beginTransmission(MS5805_ADDR); st = Wire.endTransmission()
BusProbe(st) == [op |-> "probe", addr |-> MS5805_ADDR, arg |-> 0, st |-> st, data |-> <<>>]
\* Wire.requestFrom(MS5805_ADDR, n); buffer[i] = Wire.read()
BusRead(n, buffer) ==
    [op |-> "read", addr |-> MS5805_ADDR, arg |-> n, st |-> 0, data |-> buffer]
\* delay(ms)
BusDelay(ms) == [op |-> "delay", addr |-> 0, arg |-> ms, st |-> 0, data |-> <<>>]

\* The statuses endTransmission() is given here: the three the driver names
I2cStatus == {ms5805_STATUS_OK, ms5805_STATUS_ERR_OVERFLOW, ms5805_STATUS_ERR_TIMEOUT}

----------------------------------------------------------------------------
(* enum ms5805_status ms5805::write_command(uint8_t cmd) *)

\* The faulty variant that sends the command again when the transfer failed
write_command_retry(cmd, i2c_status) ==
    [status |-> IF i2c_status = ms5805_STATUS_ERR_OVERFLOW
                THEN ms5805_status_no_i2c_acknowledge
                ELSE IF i2c_status # ms5805_STATUS_OK
                THEN ms5805_status_i2c_transfer_error
                ELSE ms5805_status_ok,
     bus |-> IF i2c_status # ms5805_STATUS_OK
             THEN <<BusWrite(cmd, i2c_status), BusWrite(cmd, i2c_status)>>
             ELSE <<BusWrite(cmd, i2c_status)>>]

write_command(cmd, i2c_status) ==
    [status |-> IF i2c_status = ms5805_STATUS_ERR_OVERFLOW
                THEN ms5805_status_no_i2c_acknowledge
                ELSE IF i2c_status # ms5805_STATUS_OK
                THEN ms5805_status_i2c_transfer_error
                ELSE ms5805_status_ok,
     bus |-> <<BusWrite(cmd, i2c_status)>>]

----------------------------------------------------------------------------
(* enum ms5805_status ms5805::read_eeprom_coeff(uint8_t command, uint16_t *coeff) *)

\* coeff is the value *coeff holds before the call; written is whether it was assigned
read_eeprom_coeff(command, coeff, i2c_status, buffer) ==
    LET exchanges == <<BusWrite(command, i2c_status), BusRead(2, buffer)>>
    IN  IF i2c_status = ms5805_STATUS_ERR_OVERFLOW
        THEN [status |-> ms5805_status_no_i2c_acknowledge, coeff |-> coeff,
              written |-> FALSE, bus |-> exchanges]
        ELSE [status |-> ms5805_status_ok,
              \* (buffer[0] << 8) | buffer[1]: the bytes share no bit, so | adds
              coeff |-> ToUint16(buffer[1] * 256 + buffer[2]),
              written |-> TRUE, bus |-> exchanges]

----------------------------------------------------------------------------
(* enum ms5805_status ms5805::read_eeprom(void) *)

\* MS5805_PROM_ADDRESS_READ_ADDRESS_0 + i * 2, and the faulty variant that steps by one
PromAddressStepOne(i) == ToUint8(MS5805_PROM_ADDRESS_READ_ADDRESS_0 + i)

PromAddress(i) == ToUint8(MS5805_PROM_ADDRESS_READ_ADDRESS_0 + i * 2)

\* for (i = 0; i < MS5805_COEFFICIENT_COUNT; i++) { status = read_eeprom_coeff(..);
\*   if (status != ms5805_status_ok) return status; }
\* in.st[i] and in.data[i] are the status and the two bytes the bus gives for word i
RECURSIVE read_eeprom_words(_, _, _, _, _)
read_eeprom_words(i, coeffs, done, exchanges, in) ==
    IF i < MS5805_COEFFICIENT_COUNT
    THEN LET r == read_eeprom_coeff(PromAddress(i), coeffs[i], in.st[i], in.data[i])
             coeffs1 == [coeffs EXCEPT ![i] = r.coeff]
             done1 == IF r.written THEN done \cup {i} ELSE done
         IN  IF r.status # ms5805_status_ok
             THEN [status |-> r.status, eeprom_coeff |-> coeffs1, stored |-> done1,
                   bus |-> exchanges \o r.bus]
             ELSE read_eeprom_words(i + 1, coeffs1, done1, exchanges \o r.bus, in)
    ELSE [status |-> ms5805_status_ok, eeprom_coeff |-> coeffs, stored |-> done,
          bus |-> exchanges]

\* if (!crc_check(eeprom_coeff, ..)) return ms5805_status_crc_error;
\* coeff_read = true; return ms5805_status_ok;    and the faulty variant that sets the flag first
read_eeprom_crc_flag_first(w, flag) ==
    LET c == crc_check_eeprom(w.eeprom_coeff)
    IN  [status |-> IF c.ok THEN ms5805_status_ok ELSE ms5805_status_crc_error,
         eeprom_coeff |-> c.n_prom, coeff_read |-> TRUE,
         stored |-> w.stored, bus |-> w.bus]

read_eeprom_crc(w, flag) ==
    LET c == crc_check_eeprom(w.eeprom_coeff)
    IN  IF ~c.ok
        THEN [status |-> ms5805_status_crc_error, eeprom_coeff |-> c.n_prom,
              coeff_read |-> flag, stored |-> w.stored, bus |-> w.bus]
        ELSE [status |-> ms5805_status_ok, eeprom_coeff |-> c.n_prom,
              coeff_read |-> TRUE, stored |-> w.stored, bus |-> w.bus]

read_eeprom(coeffs, flag, done, in) ==
    LET w == read_eeprom_words(0, coeffs, done, <<>>, in)
    IN  IF w.status # ms5805_status_ok
        THEN [status |-> w.status, eeprom_coeff |-> w.eeprom_coeff, coeff_read |-> flag,
              stored |-> w.stored, bus |-> w.bus]
        ELSE read_eeprom_crc(w, flag)

----------------------------------------------------------------------------
(* enum ms5805_status ms5805::conversion_and_read_adc(uint8_t cmd, uint32_t *adc) *)

\* The local "status" is read without ever being assigned: it holds any value, here
\* ms5805_status_ok (0) or "indeterminate", which stands for every non-zero value
IndeterminateStatus == {ms5805_status_ok, "indeterminate"}

\* What a read past the end of conversion_time[6] can give
IndeterminateWait == {0, 1000}

\* (cmd & MS5805_CONVERSION_OSR_MASK) / 2
ConversionIndex(cmd) == BitAnd(cmd, MS5805_CONVERSION_OSR_MASK) \div 2

\* conversion_time[(cmd & MS5805_CONVERSION_OSR_MASK) / 2]
ConversionWait(cmd) ==
    IF ConversionIndex(cmd) \in DOMAIN conversion_time
    THEN {conversion_time[ConversionIndex(cmd)]}
    ELSE IndeterminateWait

\* The faulty variant that asks for the result first and waits afterwards
conversion_and_read_adc_wait_last(cmd, in) ==
    LET exchanges == <<BusWrite(cmd, in.st1), BusWrite(0, in.st2),
                       BusRead(3, in.buffer), BusDelay(in.wait)>>
    IN  IF in.status # ms5805_status_ok
        THEN [status |-> in.status, written |-> FALSE, adc |-> 0, bus |-> exchanges]
        ELSE IF in.st2 = ms5805_STATUS_ERR_OVERFLOW
        THEN [status |-> ms5805_status_no_i2c_acknowledge, written |-> FALSE, adc |-> 0,
              bus |-> exchanges]
        ELSE IF in.st2 # ms5805_STATUS_OK
        THEN [status |-> ms5805_status_i2c_transfer_error, written |-> FALSE, adc |-> 0,
              bus |-> exchanges]
        ELSE [status |-> in.status, written |-> TRUE,
              adc |-> in.buffer[1] * 65536 + in.buffer[2] * 256 + in.buffer[3],
              bus |-> exchanges]

\* in.st1: status of the write of cmd (discarded); in.st2: status of the write of 0x00;
\* in.status: the value of the unassigned local; in.buffer: the 3 bytes read;
\* in.wait: the wait looked up
conversion_and_read_adc(cmd, in) ==
    LET exchanges == <<BusWrite(cmd, in.st1), BusDelay(in.wait),
                       BusWrite(0, in.st2), BusRead(3, in.buffer)>>
        status == in.status
    IN  IF status # ms5805_status_ok
        THEN [status |-> status, written |-> FALSE, adc |-> 0, bus |-> exchanges]
        ELSE IF in.st2 = ms5805_STATUS_ERR_OVERFLOW
        THEN [status |-> ms5805_status_no_i2c_acknowledge, written |-> FALSE, adc |-> 0,
              bus |-> exchanges]
        ELSE IF in.st2 # ms5805_STATUS_OK
        THEN [status |-> ms5805_status_i2c_transfer_error, written |-> FALSE, adc |-> 0,
              bus |-> exchanges]
        \* (buffer[0] << 16) | (buffer[1] << 8) | buffer[2]: the bytes share no bit
        ELSE [status |-> status, written |-> TRUE,
              adc |-> in.buffer[1] * 65536 + in.buffer[2] * 256 + in.buffer[3],
              bus |-> exchanges]

\* cmd = ms5805_resolution_osr * 2; cmd |= base;   (cmd is a uint8_t), after the
\* faulty variant that leaves the resolution out
ConversionCommandFixed(res, base) == base

ConversionCommand(res, base) == BitOr(ToUint8(res * 2), base)

----------------------------------------------------------------------------
(* The C integers of the compensation.  int32_t and int64_t values are held  *)
(* exactly, as two's complement numbers of WideLimbs limbs of LimbBits bits, *)
(* least significant limb first: wide enough for the product of a 32-bit    *)
(* by a 64-bit value, so that whether a result fits its C type can be asked. *)

LimbBits == 13
WideLimbs == 9
LimbBase == 2 ^ LimbBits

\* Carry propagation over limb sums, modulo LimbBase ^ WideLimbs
RECURSIVE WideCarry(_, _, _, _)
WideCarry(f, i, c, acc) ==
    IF i > WideLimbs THEN acc
    ELSE LET d == f[i] + c
             limb == d % LimbBase
         IN  IF limb \in Nat
             THEN WideCarry(f, i + 1, (d - limb) \div LimbBase, Append(acc, limb))
             ELSE acc

\* A value of at most 32 bits (a coefficient word, a raw ADC value, a literal)
Wide(n) ==
    LET l1 == n % LimbBase
        n1 == (n - l1) \div LimbBase
        l2 == n1 % LimbBase
        n2 == (n1 - l2) \div LimbBase
        l3 == n2 % LimbBase
        fill == IF n < 0 THEN LimbBase - 1 ELSE 0
    IN  <<l1, l2, l3, fill, fill, fill, fill, fill, fill>>

WideZero == Wide(0)
WideNeg(a) == a[WideLimbs] >= LimbBase \div 2
WideAdd(a, b) == WideCarry([i \in 1..WideLimbs |-> a[i] + b[i]], 1, 0, <<>>)
WideSub(a, b) == WideCarry([i \in 1..WideLimbs |-> a[i] - b[i]], 1, 0, <<>>)

RECURSIVE WideDot(_, _, _, _)
WideDot(a, b, k, i) ==
    IF i > k THEN 0 ELSE a[i] * b[k + 1 - i] + WideDot(a, b, k, i + 1)

WideMul(a, b) == WideCarry([k \in 1..WideLimbs |-> WideDot(a, b, k, 1)], 1, 0, <<>>)

Pow2Small(r) == [k \in 0..LimbBits |-> 2 ^ k][r]

\* a >> s on a signed value: the floor of a / 2^s
WideShr(a, s) ==
    LET q == s \div LimbBits
        r == s % LimbBits
        fill == IF WideNeg(a) THEN LimbBase - 1 ELSE 0
        ext(j) == IF j <= WideLimbs THEN a[j] ELSE fill
    IN  WideCarry([i \in 1..WideLimbs |->
                       (ext(i + q) \div Pow2Small(r))
                       + (ext(i + q + 1) % Pow2Small(r)) * Pow2Small(LimbBits - r)],
                  1, 0, <<>>)

\* 2^k, and a << s
WidePow2(k) ==
    WideCarry([i \in 1..WideLimbs |->
                  IF i = (k \div LimbBits) + 1 THEN Pow2Small(k % LimbBits) ELSE 0],
              1, 0, <<>>)
WideShl(a, s) == WideMul(a, WidePow2(s))

WideLess(a, b) == WideNeg(WideSub(a, b))
WideAbs(a) == IF WideNeg(a) THEN WideSub(WideZero, a) ELSE a

\* a / 16 on a signed value: C division truncates toward zero
WideDiv16(a) ==
    IF WideNeg(a) THEN WideSub(WideZero, WideShr(WideAbs(a), 4)) ELSE WideShr(a, 4)

\* The value is one a signed C integer of this many bits holds
WideFits(a, bits) ==
    LET top == WideShr(a, bits - 1)
    IN  \A i \in 1..WideLimbs : top[i] = IF WideNeg(a) THEN LimbBase - 1 ELSE 0

\* The number a wide integer of less than 2^25 in magnitude stands for
Narrow(a) ==
    a[1] + LimbBase * a[2] + LimbBase * LimbBase * (IF WideNeg(a) THEN a[3] - LimbBase ELSE a[3])

----------------------------------------------------------------------------
(* (float)v: the nearest value with a 24-bit significand, ties to even, held *)
(* as mant * 2^exp                                                           *)

FloatBits == 24

float_exp(mag) ==
    CHOOSE e \in 0..(WideLimbs * LimbBits - FloatBits) :
        /\ WideFits(mag, FloatBits + 1 + e)
        /\ e > 0 => ~WideFits(mag, FloatBits + e)

float_of(v) ==
    LET mag == WideAbs(v)
        e == float_exp(mag)
        sign == IF WideNeg(v) THEN -1 ELSE 1
    IN  IF e = 0
        THEN [mant |-> sign * Narrow(mag), exp |-> 0]
        ELSE LET twice == WideShr(mag, e - 1)
                 q == Narrow(WideShr(mag, e))
                 sticky == WideShl(twice, e - 1) # mag
                 up == (twice[1] % 2 = 1) /\ (sticky \/ q % 2 = 1)
                 m == IF up THEN q + 1 ELSE q
             IN  IF m = 2 ^ FloatBits
                 THEN [mant |-> sign * (m \div 2), exp |-> e + 1]
                 ELSE [mant |-> sign * m, exp |-> e]

\* The integer a float holds
float_value(f) == WideShl(Wide(f.mant), f.exp)

\* (float)a - b, with b converted to float: the difference, rounded
float_minus(a, b) == float_of(WideSub(float_value(float_of(a)), float_value(float_of(b))))

\* f / 100: the float nearest the quotient, held as the float divided and the divisor
float_over_100(f) == [mant |-> f.mant, exp |-> f.exp, over |-> 100]

----------------------------------------------------------------------------
(* The compensation of read_temperature_and_pressure: from the coefficient   *)
(* table and the two raw ADC values to TEMP, T2 and P, and the floats        *)

\* int32_t dT, TEMP;   int64_t OFF, SENS, P, T2, OFF2, SENS2;
Int32Bits == 32
Int64Bits == 64

\* if (TEMP < 2000), with the faulty variant that takes 2000 itself for low
low_temperature_inclusive(TEMP) == ~WideLess(Wide(2000), TEMP)
low_temperature(TEMP) == WideLess(TEMP, Wide(2000))

\* if (TEMP < -1500)
very_low_temperature(TEMP) == WideLess(TEMP, Wide(-1500))

\* k * x * x, as C evaluates it: (k * x) * x
scaled_square(k, x) == WideMul(WideMul(Wide(k), x), x)

\* OFF2 = 61 * (TEMP - 2000) * (TEMP - 2000) / 16
OFF2_low(x) == WideDiv16(scaled_square(61, x))

\* SENS2 = 29 * (TEMP - 2000) * (TEMP - 2000) / 16, with the faulty variant that
\* leaves out the division
SENS2_low_undivided(x) == scaled_square(29, x)
SENS2_low(x) == WideDiv16(scaled_square(29, x))

\* The compensation is computed step by step on a record c that gains the value of
\* each C expression as it is evaluated.

\* (int32_t)eeprom_coeff[MS5805_REFERENCE_TEMPERATURE_INDEX] << 8
compensation_inputs(coeff, adc_temperature, adc_pressure) ==
    [coeff |-> coeff, adc_temperature |-> adc_temperature, adc_pressure |-> adc_pressure,
     Tref |-> WideShl(Wide(coeff[MS5805_REFERENCE_TEMPERATURE_INDEX]), 8)]

\* dT = (int32_t)adc_temperature - Tref
compute_dT(c) == c @@ [dT |-> WideSub(Wide(c.adc_temperature), c.Tref)]

\* (int64_t)dT * (int64_t)eeprom_coeff[MS5805_TEMP_COEFF_OF_TEMPERATURE_INDEX]
compute_dT_TEMPSENS(c) ==
    c @@ [dT_TEMPSENS |->
            WideMul(c.dT, Wide(c.coeff[MS5805_TEMP_COEFF_OF_TEMPERATURE_INDEX]))]

\* TEMP = 2000 + (dT * TEMPSENS >> 23)
compute_TEMP(c) == c @@ [TEMP |-> WideAdd(Wide(2000), WideShr(c.dT_TEMPSENS, 23))]

\* (int64_t)dT * (int64_t)dT,  (int64_t)TEMP - 2000,  (int64_t)TEMP + 1500
compute_squares(c) ==
    c @@ [dT2 |-> WideMul(c.dT, c.dT),
          x |-> WideSub(c.TEMP, Wide(2000)),
          y |-> WideAdd(c.TEMP, Wide(1500))]

\* TEMP < 2000:  3 * dT * dT, and OFF2 and SENS2 with the products they are made of
second_order_low(c) ==
    c @@ [times |-> WideMul(Wide(3), c.dT2),
          x61 |-> WideMul(Wide(61), c.x), xx61 |-> scaled_square(61, c.x),
          OFF2 |-> OFF2_low(c.x),
          x29 |-> WideMul(Wide(29), c.x), xx29 |-> scaled_square(29, c.x),
          SENS2 |-> SENS2_low(c.x)]

\* T2 = (3 * dT * dT) >> 33; second lists the int64_t values computed so far
second_order_low_T2(c) ==
    c @@ [T2 |-> WideShr(c.times, 33),
          second |-> <<c.dT2, c.times, c.x, c.x61, c.xx61, c.OFF2, c.x29, c.xx29,
                       c.SENS2>>]

\* TEMP < -1500:  17 * (TEMP + 1500)^2 and 9 * (TEMP + 1500)^2
second_order_very_low(c) ==
    c @@ [y17 |-> WideMul(Wide(17), c.y), yy17 |-> scaled_square(17, c.y),
          y9 |-> WideMul(Wide(9), c.y), yy9 |-> scaled_square(9, c.y)]

\* OFF2 += ...;  SENS2 += ...;
second_order_very_low_add(c) ==
    [c EXCEPT !.OFF2 = WideAdd(@, c.yy17),
              !.SENS2 = WideAdd(@, c.yy9),
              !.second = @ \o <<c.y, c.y17, c.yy17, c.y9, c.yy9>>]

\* else:  5 * dT * dT,  OFF2 = 0,  SENS2 = 0
second_order_high(c) ==
    c @@ [times |-> WideMul(Wide(5), c.dT2), OFF2 |-> WideZero, SENS2 |-> WideZero]

\* T2 = (5 * dT * dT) >> 38
second_order_high_T2(c) ==
    c @@ [T2 |-> WideShr(c.times, 38), second |-> <<c.dT2, c.times>>]

\* The second order compensation
second_order(c) ==
    IF low_temperature(c.TEMP)
    THEN IF very_low_temperature(c.TEMP)
         THEN second_order_very_low_add(
                  second_order_very_low(second_order_low_T2(second_order_low(c))))
         ELSE second_order_low_T2(second_order_low(c))
    ELSE second_order_high_T2(second_order_high(c))

\* (int64_t)OFF_T1 << 17,  (int64_t)TCO * dT,  (int64_t)SENS_T1 << 16,  (int64_t)TCS * dT
compute_products(c) ==
    c @@ [OFF_T1 |-> WideShl(Wide(c.coeff[MS5805_PRESSURE_OFFSET_INDEX]), 17),
          TCO_dT |->
            WideMul(Wide(c.coeff[MS5805_TEMP_COEFF_OF_PRESSURE_OFFSET_INDEX]), c.dT),
          SENS_T1 |-> WideShl(Wide(c.coeff[MS5805_PRESSURE_SENSITIVITY_INDEX]), 16),
          TCS_dT |->
            WideMul(Wide(c.coeff[MS5805_TEMP_COEFF_OF_PRESSURE_SENSITIVITY_INDEX]), c.dT)]

\* OFF = OFF_T1 + (TCO * dT >> 6);   SENS = SENS_T1 + (TCS * dT >> 7);
compute_first_order(c) ==
    c @@ [OFF_1 |-> WideAdd(c.OFF_T1, WideShr(c.TCO_dT, 6)),
          SENS_1 |-> WideAdd(c.SENS_T1, WideShr(c.TCS_dT, 7))]

\* OFF -= OFF2;   SENS -= SENS2;
compute_OFF_SENS(c) ==
    c @@ [OFF |-> WideSub(c.OFF_1, c.OFF2), SENS |-> WideSub(c.SENS_1, c.SENS2)]

\* adc_pressure * SENS
compute_D1_SENS(c) == c @@ [D1_SENS |-> WideMul(Wide(c.adc_pressure), c.SENS)]

\* ((adc_pressure * SENS) >> 21) - OFF
compute_P_1(c) == c @@ [P_1 |-> WideSub(WideShr(c.D1_SENS, 21), c.OFF)]

\* P = (((adc_pressure * SENS) >> 21) - OFF) >> 15
compute_P(c) == c @@ [P |-> WideShr(c.P_1, 15)]

\* int32 and int64 list the values held in int32_t and in int64_t
compute_lists(c) ==
    c @@ [int32 |-> <<c.Tref, c.dT, c.TEMP>>,
          int64 |-> <<c.dT_TEMPSENS, c.TEMP>> \o c.second
                    \o <<c.T2, c.OFF2, c.SENS2, c.OFF_T1, c.TCO_dT, c.OFF_1, c.OFF,
                         c.SENS_T1, c.TCS_dT, c.SENS_1, c.SENS, c.D1_SENS, c.P_1, c.P>>]

\* defined says that each value fits its type (signed overflow is undefined);
\* *temperature = ((float)TEMP - T2) / 100;   *pressure = (float)P / 100;
compute_floats(c) ==
    c @@ [defined |-> /\ \A k \in DOMAIN c.int32 : WideFits(c.int32[k], Int32Bits)
                      /\ \A k \in DOMAIN c.int64 : WideFits(c.int64[k], Int64Bits),
          temperature |-> float_over_100(float_minus(c.TEMP, c.T2)),
          pressure |-> float_over_100(float_of(c.P))]

\* Every integer of the compensation, exactly, and the two floats
compensation(coeff, adc_temperature, adc_pressure) ==
    compute_floats(compute_lists(compute_P(compute_P_1(compute_D1_SENS(
        compute_OFF_SENS(compute_first_order(compute_products(
            second_order(compute_squares(compute_TEMP(compute_dT_TEMPSENS(compute_dT(
                compensation_inputs(coeff, adc_temperature, adc_pressure))))))))))))))

----------------------------------------------------------------------------
(* Inputs: what the device and the transport give *)

\* The most endTransmission() calls of one public call that report a failure
MaxFaults == 1

PromBytes(t) == [i \in DOMAIN t |-> <<t[i] \div 256, t[i] % 256>>]

Faults(statuses) == Cardinality({i \in DOMAIN statuses : statuses[i] # ms5805_STATUS_OK})

PromStatuses ==
    {f \in [0..(MS5805_COEFFICIENT_COUNT - 1) -> I2cStatus] : Faults(f) <= MaxFaults}

PromInput == {[st |-> f, data |-> PromBytes(t)] : f \in PromStatuses, t \in PromTables}

\* The failures among the exchanges a load made
LoadFaults(exchanges) ==
    Cardinality({k \in DOMAIN exchanges : exchanges[k].st # ms5805_STATUS_OK})

\* The 3 bytes of an ADC read: zero, and the data sheet's D2
AdcBuffers == {<<0, 0, 0>>, <<123, 65, 68>>}

\* The raw values those bytes make
AdcValues == {b[1] * 65536 + b[2] * 256 + b[3] : b \in AdcBuffers}

\* The value of a float no statement has assigned, or computed from an overflow
IndeterminateFloat == [mant |-> 0, exp |-> 0, over |-> 0]

\* The two floats a compensation gives
floats_of(c) ==
    IF c.defined
    THEN <<c.temperature, c.pressure>>
    ELSE <<IndeterminateFloat, IndeterminateFloat>>

\* The floats for each table a load can leave and each pair of raw values
\* (evaluated once per table and pair)
measured_loaded ==
    {<<<<t, a, b>>, floats_of(compensation(t, a, b))>> :
        t \in LoadedTables, a \in AdcValues, b \in AdcValues}

\* The two floats the compensation gives for a table and a pair of raw values
measured(coeff, adc_temperature, adc_pressure) ==
    LET hits == {m \in measured_loaded : m[1] = <<coeff, adc_temperature, adc_pressure>>}
    IN  IF hits # {}
        THEN (CHOOSE m \in hits : TRUE)[2]
        ELSE floats_of(compensation(coeff, adc_temperature, adc_pressure))

ConversionInput(cmd, faults) ==
    {in \in [st1 : I2cStatus, st2 : I2cStatus, status : IndeterminateStatus,
             buffer : AdcBuffers, wait : ConversionWait(cmd)] :
        Faults(<<in.st1, in.st2>>) <= faults}

\* The table and the resolution of an object whose constructor assigns neither: the
\* resolution is 0 in static storage, and elsewhere any value, here one outside the enum
IndeterminateTables == {[i \in 0..MS5805_COEFFICIENT_COUNT |-> IndeterminateWord]}
IndeterminateResolution == {0, 6}

\* The resolutions a caller asks for here: the lowest and the highest
ResolutionInputs == {res \in ResolutionOsr : res \in {0, 5}}

----------------------------------------------------------------------------
(* The driver object and its public methods *)

CrcIdle ==
    /\ n_prom = <<>>
    /\ n_prom_in = <<>>
    /\ crc_base = <<>>
    /\ crc_flip = -1
    /\ crc_arg = 0
    /\ crc_ok = "none"

\* The compensation harness at rest
CompIdle ==
    /\ comp_in = <<>>
    /\ comp = <<>>

\* The caller's floats before any measurement
OutIdle ==
    /\ temperature = IndeterminateFloat
    /\ pressure = IndeterminateFloat

\* ms5805::ms5805(void) {}  with  bool coeff_read = false
Init ==
    /\ eeprom_coeff \in IndeterminateTables
    /\ coeff_read = FALSE
    /\ ms5805_resolution_osr \in IndeterminateResolution
    /\ stored = {}
    /\ call = "ms5805"
    /\ ret = "none"
    /\ bus = <<>>
    /\ CrcIdle
    /\ OutIdle
    /\ CompIdle

\* void ms5805::begin(void)
begin ==
    /\ call' = "begin"
    /\ ret' = "none"
    /\ bus' = <<>>
    /\ UNCHANGED <<eeprom_coeff, coeff_read, ms5805_resolution_osr, stored>>
    /\ UNCHANGED <<crc_vars, out_vars, comp_vars>>

\* boolean ms5805::is_connected(void), after the faulty variant that takes every status
\* but the overflow one for an acknowledge
is_connected_lenient ==
    \E i2c_status \in I2cStatus :
        /\ call' = "is_connected"
        /\ ret' = IF i2c_status # ms5805_STATUS_ERR_OVERFLOW THEN "true" ELSE "false"
        /\ bus' = <<BusProbe(i2c_status)>>
        /\ UNCHANGED <<eeprom_coeff, coeff_read, ms5805_resolution_osr, stored>>
        /\ UNCHANGED <<crc_vars, out_vars, comp_vars>>

is_connected ==
    \E i2c_status \in I2cStatus :
        /\ call' = "is_connected"
        /\ ret' = IF i2c_status = 0 THEN "true" ELSE "false"
        /\ bus' = <<BusProbe(i2c_status)>>
        /\ UNCHANGED <<eeprom_coeff, coeff_read, ms5805_resolution_osr, stored>>
        /\ UNCHANGED <<crc_vars, out_vars, comp_vars>>

\* void ms5805::set_resolution(enum ms5805_resolution_osr res)
set_resolution ==
    \E res \in ResolutionInputs :
        /\ ms5805_resolution_osr' = res
        /\ call' = "set_resolution"
        /\ ret' = "none"
        /\ bus' = <<>>
        /\ UNCHANGED <<eeprom_coeff, coeff_read, stored>>
        /\ UNCHANGED <<crc_vars, out_vars, comp_vars>>

\* enum ms5805_status ms5805::reset(void), and the faulty variant that drops the coefficients
reset_forgets ==
    \E i2c_status \in I2cStatus :
        LET w == write_command(MS5805_RESET_COMMAND, i2c_status)
        IN  /\ call' = "reset"
            /\ ret' = w.status
            /\ bus' = w.bus
            /\ coeff_read' = FALSE
            /\ UNCHANGED <<eeprom_coeff, ms5805_resolution_osr, stored>>
            /\ UNCHANGED <<crc_vars, out_vars, comp_vars>>

reset ==
    \E i2c_status \in I2cStatus :
        LET w == write_command(MS5805_RESET_COMMAND, i2c_status)
        IN  /\ call' = "reset"
            /\ ret' = w.status
            /\ bus' = w.bus
            /\ UNCHANGED <<eeprom_coeff, coeff_read, ms5805_resolution_osr, stored>>
            /\ UNCHANGED <<crc_vars, out_vars, comp_vars>>

\* if (coeff_read == false) status = read_eeprom();   and the faulty variant that always loads
eeprom_wanted_always(flag) == TRUE

eeprom_wanted(flag) == flag = FALSE

\* The caller's floats once both conversions returned ms5805_status_ok: left as they
\* were when the zero guard returns, written after the compensation otherwise; and the
\* faulty variant that writes them before the guard
floats_after_unguarded(adc_temperature, adc_pressure, coeff, floats) ==
    measured(coeff, adc_temperature, adc_pressure)

floats_after(adc_temperature, adc_pressure, coeff, floats) ==
    IF adc_temperature = 0 \/ adc_pressure = 0
    THEN floats
    ELSE measured(coeff, adc_temperature, adc_pressure)

\* What read_temperature_and_pressure leaves behind when it returns
Returns(status, exchanges, coeffs, flag, done, floats) ==
    /\ call' = "read_temperature_and_pressure"
    /\ temperature' = floats[1]
    /\ pressure' = floats[2]
    /\ ret' = status
    /\ bus' = exchanges
    /\ eeprom_coeff' = coeffs
    /\ coeff_read' = flag
    /\ stored' = done
    /\ UNCHANGED ms5805_resolution_osr
    /\ UNCHANGED <<crc_vars, comp_vars>>

\* enum ms5805_status ms5805::read_temperature_and_pressure(float *, float *)
read_temperature_and_pressure ==
    \E pin \in IF eeprom_wanted(coeff_read) THEN PromInput ELSE {<<>>} :
    \E e \in {IF eeprom_wanted(coeff_read)
              THEN read_eeprom(eeprom_coeff, coeff_read, stored, pin)
              ELSE [status |-> ms5805_status_ok, eeprom_coeff |-> eeprom_coeff,
                    coeff_read |-> coeff_read, stored |-> stored, bus |-> <<>>]} :
    \E cmdT \in {ConversionCommand(ms5805_resolution_osr,
                                   MS5805_START_TEMPERATURE_ADC_CONVERSION)} :
    \E cmdP \in {ConversionCommand(ms5805_resolution_osr,
                                   MS5805_START_PRESSURE_ADC_CONVERSION)} :
        IF e.status # ms5805_status_ok
        THEN Returns(e.status, e.bus, e.eeprom_coeff, e.coeff_read, e.stored,
                     <<temperature, pressure>>)
        ELSE
            \E tin \in ConversionInput(cmdT, MaxFaults - LoadFaults(e.bus)) :
            \E t \in {conversion_and_read_adc(cmdT, tin)} :
                IF t.status # ms5805_status_ok
                THEN Returns(t.status, e.bus \o t.bus, e.eeprom_coeff, e.coeff_read,
                             e.stored, <<temperature, pressure>>)
                ELSE
                    \* both conversions look up the same element of conversion_time
                    \E pcin \in {in \in ConversionInput(cmdP,
                                                       MaxFaults - LoadFaults(e.bus \o t.bus)) :
                                     in.wait = tin.wait} :
                    \E p \in {conversion_and_read_adc(cmdP, pcin)} :
                        IF p.status # ms5805_status_ok
                        THEN Returns(p.status, e.bus \o t.bus \o p.bus, e.eeprom_coeff,
                                     e.coeff_read, e.stored, <<temperature, pressure>>)
                        ELSE
                            \E floats \in {floats_after(t.adc, p.adc, e.eeprom_coeff,
                                                         <<temperature, pressure>>)} :
                                IF t.adc = 0 \/ p.adc = 0
                                THEN Returns(ms5805_status_i2c_transfer_error,
                                             e.bus \o t.bus \o p.bus, e.eeprom_coeff,
                                             e.coeff_read, e.stored, floats)
                                ELSE Returns(p.status, e.bus \o t.bus \o p.bus,
                                             e.eeprom_coeff, e.coeff_read, e.stored, floats)

Next ==
    \/ begin
    \/ is_connected
    \/ set_resolution
    \/ reset
    \/ read_temperature_and_pressure

Spec == Init /\ [][Next]_vars

----------------------------------------------------------------------------
(* crc_check on its own: a table accepted by crc_check, one of its bits flipped, *)
(* then crc_check called on it                                                     *)

ZeroTable == [i \in 0..MS5805_COEFFICIENT_COUNT |-> 0]

\* The 8-word tables crc_check accepts when called as read_eeprom calls it
AcceptedTables ==
    {t \in LoadedTables \cup {ZeroTable} : crc_check(t, crc_of_word0(t)).ok}

\* Bit b of the table: bit b % 16 of word b \div 16
Pow2(n) == [k \in 0..15 |-> <<1, 2, 4, 8, 16, 32, 64, 128, 256, 512, 1024, 2048, 4096,
                               8192, 16384, 32768>>[k + 1]][n]
FlipBit(t, b) == [t EXCEPT ![b \div 16] = XorBit(t[b \div 16], Pow2(b % 16))]

TableBits == 0..((MS5805_COEFFICIENT_COUNT + 1) * 16 - 1)

DriverIdle ==
    /\ eeprom_coeff = [i \in 0..MS5805_COEFFICIENT_COUNT |-> IndeterminateWord]
    /\ coeff_read = FALSE
    /\ ms5805_resolution_osr = 0
    /\ stored = {}
    /\ call = "ms5805"
    /\ ret = "none"
    /\ bus = <<>>

InitCrc ==
    /\ DriverIdle
    /\ OutIdle
    /\ CompIdle
    /\ crc_base \in AcceptedTables
    /\ n_prom = crc_base
    /\ n_prom_in = crc_base
    /\ crc_flip = -1
    /\ crc_arg = 0
    /\ crc_ok = "none"

flip_one_bit ==
    /\ crc_flip = -1
    /\ crc_ok = "none"
    /\ \E b \in TableBits :
        /\ n_prom' = FlipBit(n_prom, b)
        /\ crc_flip' = b
        /\ UNCHANGED <<n_prom_in, crc_base, crc_arg, crc_ok>>
        /\ UNCHANGED <<driver_vars, out_vars, comp_vars>>

call_crc_check ==
    /\ crc_ok = "none"
    /\ \E crc \in 0..15 :
       \E c \in {crc_check(n_prom, crc)} :
        /\ n_prom_in' = n_prom
        /\ crc_arg' = crc
        /\ crc_ok' = IF c.ok THEN "true" ELSE "false"
        /\ n_prom' = c.n_prom
        /\ UNCHANGED <<crc_base, crc_flip>>
        /\ UNCHANGED <<driver_vars, out_vars, comp_vars>>

NextCrc ==
    \/ flip_one_bit
    \/ call_crc_check

SpecCrc == InitCrc /\ [][NextCrc]_vars

----------------------------------------------------------------------------
(* The compensation on its own: a coefficient table and two raw ADC values,  *)
(* then the compensation of read_temperature_and_pressure applied to them    *)

\* The largest coefficient word and the largest raw value of the 24-bit ADC
MaxWord == 65535
MaxAdc == 16777215

\* A table from its words 1 to 6 (word 0 holds the CRC and takes no part)
CoeffTable(c) == [i \in 0..MS5805_COEFFICIENT_COUNT |-> IF i \in 1..6 THEN c[i] ELSE 0]

\* Every table whose words are all 0 or the largest word
CornerTables == {CoeffTable(c) : c \in [1..6 -> {0, MaxWord}]}

\* The data sheet's table, and the same with a temperature coefficient of 0 and of 1
SheetTables ==
    {[CoeffTable(GoodProm) EXCEPT ![MS5805_TEMP_COEFF_OF_TEMPERATURE_INDEX] = c] :
        c \in {0, 1, GoodProm[MS5805_TEMP_COEFF_OF_TEMPERATURE_INDEX]}}

\* Raw temperatures: the ends of the range, the data sheet's D2, and with the data
\* sheet's table the last value of TEMP = -1501, the first and last of TEMP = -1500,
\* the last of TEMP = 1999, the first and last of TEMP = 2000, the first of 2001
SheetTemperatures ==
    {1, 7035134, 7035135, 7035432, 8077567, 8077568, 8077636, 8077865, 8077866, MaxAdc}

\* Raw pressures: the ends of the range and the data sheet's D1
SheetPressures == {1, 6465444, MaxAdc}

CompInputs ==
    [coeff : CornerTables, adc_temperature : {1, MaxAdc}, adc_pressure : {1, MaxAdc}]
    \cup [coeff : SheetTables, adc_temperature : SheetTemperatures,
          adc_pressure : SheetPressures]

InitComp ==
    /\ DriverIdle
    /\ CrcIdle
    /\ OutIdle
    /\ comp_in \in CompInputs
    /\ comp = <<>>

call_compensation ==
    /\ comp = <<>>
    /\ \E c \in {compensation(comp_in.coeff, comp_in.adc_temperature,
                                comp_in.adc_pressure)} :
        comp' = <<c>>
    /\ UNCHANGED comp_in
    /\ UNCHANGED <<driver_vars, crc_vars, out_vars>>

NextComp == call_compensation

SpecComp == InitComp /\ [][NextComp]_vars

----------------------------------------------------------------------------
(* Reading the exchanges of a call *)

ReadCall == call = "read_temperature_and_pressure"

\* The PROM address-select commands 0xA0, 0xA2, .., 0xAE
PromCommands == {160 + 2 * k : k \in 0..7}
IsPromSelect(x) == x.op = "write" /\ x.arg \in PromCommands
IsPromRead(x) == x.op = "read" /\ x.arg = 2
NoPromTraffic(b) == \A k \in DOMAIN b : ~IsPromSelect(b[k]) /\ ~IsPromRead(b[k])

\* The conversion-start commands 0x40 | 2 * res and 0x50 | 2 * res
IsConversionStart(x) == x.op = "write" /\ x.arg \in 64..95
NoConversion(b) == \A k \in DOMAIN b : ~IsConversionStart(b[k])

IsAdcRead(x) == x.op = "read" /\ x.arg = 3
AllAcknowledged(b) == \A k \in DOMAIN b : b[k].st = ms5805_STATUS_OK

\* The address-select commands of a call, in order, and the 2-byte reads
PromSelects(b) == SelectSeq(b, IsPromSelect)
PromReads(b) == SelectSeq(b, IsPromRead)

\* A load ran and no address select was refused: nothing cut it short
LoadNotCutShort(b) ==
    /\ \E k \in DOMAIN b : IsPromSelect(b[k])
    /\ \A k \in DOMAIN b : IsPromSelect(b[k]) => b[k].st # ms5805_STATUS_ERR_OVERFLOW

\* The table made of the words a call read, each two bytes big-endian, slot 7 zero
WordsRead(b) ==
    LET reads == PromReads(b)
    IN  [i \in 0..MS5805_COEFFICIENT_COUNT |->
            IF i < Len(reads)
            THEN reads[i + 1].data[1] * 256 + reads[i + 1].data[2]
            ELSE 0]

\* A load ran to its end and the CRC of the words it read differs from the nibble
\* in the top 4 bits of word 0
CrcMismatch ==
    /\ ReadCall
    /\ LoadNotCutShort(bus)
    /\ ~crc_check_eeprom(WordsRead(bus)).ok

\* The call starts with a PROM fetch that goes on until its end or a refused select
FetchesProm(b) ==
    /\ Len(b) >= 2
    /\ IsPromSelect(b[1]) /\ b[1].arg = 160
    /\ IsPromRead(b[2])
    /\ LET selects == PromSelects(b)
       IN  \/ Len(selects) = MS5805_COEFFICIENT_COUNT
           \/ selects[Len(selects)].st = ms5805_STATUS_ERR_OVERFLOW

----------------------------------------------------------------------------
(* C1: once coeff_read is true, a read_temperature_and_pressure call, whatever *)
(* calls came in between, sends no PROM address select and makes no 2-byte     *)
(* PROM read.                                                                   *)
C1_ReadOnce ==
    [][(coeff_read /\ call' = "read_temperature_and_pressure") => NoPromTraffic(bus')]_vars

\* A measurement made with the coefficients already validated: conversions only
C1_Witness == coeff_read /\ ReadCall /\ Len(bus) > 0 /\ NoPromTraffic(bus)

(* C2: when the CRC over the words just read differs from the nibble of word 0, *)
(* the call returns ms5805_status_crc_error, sends no conversion command and    *)
(* leaves coeff_read false; the next read_temperature_and_pressure call fetches *)
(* the PROM from the bus again.                                                 *)
C2_CrcFailureNotCached ==
    /\ [](CrcMismatch =>
            /\ ret = ms5805_status_crc_error
            /\ NoConversion(bus)
            /\ coeff_read = FALSE)
    /\ [][(/\ ret = ms5805_status_crc_error
            /\ CrcMismatch
            /\ call' = "read_temperature_and_pressure") => FetchesProm(bus')]_vars

\* A complete load of the table whose CRC nibble does not match
C2_Witness ==
    CrcMismatch /\ ret = ms5805_status_crc_error /\ Len(PromReads(bus)) = MS5805_COEFFICIENT_COUNT

(* C3 as claimed: between two public calls the table is either fully unset or *)
(* fully populated and CRC-validated.                                          *)
C3_Original ==
    \/ stored = {}
    \/ stored = 0..(MS5805_COEFFICIENT_COUNT - 1) /\ coeff_read

(* C3 as amended: whenever coeff_read is true the table holds all 7 PROM words *)
(* and crc_check accepts it; while coeff_read is false the table may hold the  *)
(* words of a load that was refused at word k or that failed the CRC check.    *)
C3_Amended ==
    coeff_read =>
        /\ stored = 0..(MS5805_COEFFICIENT_COUNT - 1)
        /\ crc_check(eeprom_coeff, crc_of_word0(eeprom_coeff)).ok

\* The validated table, after a measurement that returned ms5805_status_ok
C3_Witness == coeff_read /\ ReadCall /\ ret = ms5805_status_ok /\ ~NoPromTraffic(bus)

(* C4 as claimed: a refused address select makes the load return              *)
(* ms5805_status_no_i2c_acknowledge, an address select that fails with any     *)
(* other status makes it return ms5805_status_i2c_transfer_error, and in both  *)
(* cases the load stops at that word: nothing follows its 2-byte read.         *)
C4_PromErrorPropagation ==
    ReadCall =>
        \A k \in DOMAIN bus :
            IsPromSelect(bus[k]) =>
                /\ bus[k].st = ms5805_STATUS_ERR_OVERFLOW =>
                        ret = ms5805_status_no_i2c_acknowledge
                /\ bus[k].st \notin {ms5805_STATUS_OK, ms5805_STATUS_ERR_OVERFLOW} =>
                        ret = ms5805_status_i2c_transfer_error
                /\ bus[k].st # ms5805_STATUS_OK => Len(bus) <= k + 1

(* C5 as claimed: when the write of a conversion-start command is not         *)
(* acknowledged or fails, read_temperature_and_pressure never returns         *)
(* ms5805_status_ok.                                                          *)
C5_ConversionStartReported ==
    ReadCall =>
        \A k \in DOMAIN bus :
            (IsConversionStart(bus[k]) /\ bus[k].st # ms5805_STATUS_OK) =>
                ret # ms5805_status_ok

(* C6 as claimed: when every bus exchange of the call reported success and a *)
(* raw value read from the device is exactly 0, the call returns              *)
(* ms5805_status_i2c_transfer_error.                                          *)
C6_ZeroAdcGuard ==
    (/\ ReadCall
     /\ AllAcknowledged(bus)
     /\ \E k \in DOMAIN bus : IsAdcRead(bus[k]) /\ bus[k].data = <<0, 0, 0>>)
    => ret = ms5805_status_i2c_transfer_error

(* C7 as claimed: in a table crc_check accepts, with the expected nibble taken  *)
(* from the top 4 bits of word 0, flipping any one of the 128 bits of words 0   *)
(* to 7 makes crc_check return false.                                           *)
C7_Original ==
    (/\ crc_ok # "none"
     /\ crc_flip \in TableBits
     /\ crc_arg = crc_of_word0(n_prom_in))
    => crc_ok = "false"

\* The bits of words 0 to 6, the words read_eeprom fills
LoadedBits == 0..(MS5805_COEFFICIENT_COUNT * 16 - 1)

(* C7 as amended: flipping any one of the 112 bits of words 0 to 6 makes        *)
(* crc_check return false; crc_check overwrites word 7 with 0 before it         *)
(* computes, so a flipped bit of word 7 goes unnoticed.                         *)
C7_Amended ==
    (/\ crc_ok # "none"
     /\ crc_flip \in LoadedBits
     /\ crc_arg = crc_of_word0(n_prom_in))
    => crc_ok = "false"

\* crc_check refused a table with one bit of a coefficient word flipped
C7_Witness ==
    /\ crc_ok = "false"
    /\ crc_flip \in 16..(MS5805_COEFFICIENT_COUNT * 16 - 1)
    /\ crc_arg = crc_of_word0(n_prom_in)
    /\ crc_base # ZeroTable

(* C8: whatever the table and the expected nibble, and whether crc_check        *)
(* returns true or false, words 0 to 6 hold after the call the values they held *)
(* before it.                                                                   *)
C8_NoLeak ==
    crc_ok # "none" =>
        \A i \in 0..(MS5805_COEFFICIENT_COUNT - 1) : n_prom[i] = n_prom_in[i]

\* crc_check returned on a table whose word 0 has a non-zero CRC nibble
C8_Witness ==
    /\ crc_ok \in {"true", "false"}
    /\ n_prom_in[MS5805_CRC_INDEX] >= 4096
    /\ n_prom[MS5805_CRC_INDEX] = n_prom_in[MS5805_CRC_INDEX]

(* C9 as claimed: a load that no error cuts short reads 8 words, from the       *)
(* addresses 0xA0, 0xA2, .., 0xAE in this order, each as an address select      *)
(* followed by a 2-byte read.                                                   *)
C9_Original ==
    (ReadCall /\ LoadNotCutShort(bus)) =>
        /\ Len(bus) >= 16
        /\ \A i \in 0..7 :
            /\ bus[2 * i + 1].op = "write" /\ bus[2 * i + 1].arg = 160 + 2 * i
            /\ IsPromRead(bus[2 * i + 2])

(* C9 as amended: a load that no refused select cuts short reads 7 words, from  *)
(* the addresses 0xA0, 0xA2, .., 0xAC in this order, each as an address select  *)
(* followed by a 2-byte read; nothing else of the call touches the PROM, and    *)
(* the table holds afterwards the 7 words, each two bytes big-endian.           *)
C9_Amended ==
    (ReadCall /\ LoadNotCutShort(bus)) =>
        /\ Len(bus) >= 2 * MS5805_COEFFICIENT_COUNT
        /\ \A i \in 0..(MS5805_COEFFICIENT_COUNT - 1) :
            /\ bus[2 * i + 1].op = "write" /\ bus[2 * i + 1].arg = 160 + 2 * i
            /\ IsPromRead(bus[2 * i + 2])
            /\ Len(bus[2 * i + 2].data) = 2
            /\ eeprom_coeff[i] = bus[2 * i + 2].data[1] * 256 + bus[2 * i + 2].data[2]
        /\ \A k \in DOMAIN bus :
            k > 2 * MS5805_COEFFICIENT_COUNT => ~IsPromSelect(bus[k]) /\ ~IsPromRead(bus[k])

\* A complete load of the datasheet table, followed by the conversions
C9_Witness ==
    /\ ReadCall
    /\ LoadNotCutShort(bus)
    /\ Len(bus) > 2 * MS5805_COEFFICIENT_COUNT
    /\ \A i \in 0..(MS5805_COEFFICIENT_COUNT - 1) : eeprom_coeff[i] = GoodProm[i]

(* C10: once coeff_read is true, no call sets it back to false or changes the   *)
(* coefficient words 1 to 6.                                                    *)
C10_NeverLost ==
    [][coeff_read =>
        /\ coeff_read'
        /\ \A i \in 1..(MS5805_COEFFICIENT_COUNT - 1) : eeprom_coeff'[i] = eeprom_coeff[i]]_vars

\* A measurement on the validated coefficients that failed, the flag still set
C10_Witness ==
    /\ coeff_read
    /\ ReadCall
    /\ NoPromTraffic(bus)
    /\ ret = ms5805_status_i2c_transfer_error

----------------------------------------------------------------------------
(* Reading the result of a compensation *)

Computed == comp # <<>>

\* TEMP as a number (its magnitude is below 2^25)
ComputedTEMP == Narrow(comp[1].TEMP)

\* (3 * dT * dT) >> 33 and (5 * dT * dT) >> 38 for the dT of the result
T2_below_2000 == WideShr(WideMul(Wide(3), WideMul(comp[1].dT, comp[1].dT)), 33)
T2_from_2000 == WideShr(WideMul(Wide(5), WideMul(comp[1].dT, comp[1].dT)), 38)

\* k * (TEMP - 2000)^2 / 16 and k * (TEMP + 1500)^2 for the TEMP of the result
LowTerm(k) == WideDiv16(scaled_square(k, WideSub(comp[1].TEMP, Wide(2000))))
ExtraTerm(k) == scaled_square(k, WideAdd(comp[1].TEMP, Wide(1500)))

(* C11: the branch boundaries of the second-order correction are strict.  From *)
(* TEMP = 2000 upward T2 = (5*dT*dT) >> 38 and OFF2 = SENS2 = 0; below 2000    *)
(* T2 = (3*dT*dT) >> 33; from TEMP = -1500 up to 1999 OFF2 = 61*(TEMP-2000)^2/16 *)
(* and SENS2 = 29*(TEMP-2000)^2/16 with nothing added; only below -1500 are      *)
(* 17*(TEMP+1500)^2 and 9*(TEMP+1500)^2 added.                                   *)
C11_StrictBoundaries ==
    Computed =>
        /\ ComputedTEMP >= 2000 =>
            /\ comp[1].T2 = T2_from_2000
            /\ comp[1].OFF2 = WideZero
            /\ comp[1].SENS2 = WideZero
        /\ ComputedTEMP < 2000 => comp[1].T2 = T2_below_2000
        /\ (ComputedTEMP >= -1500 /\ ComputedTEMP < 2000) =>
            /\ comp[1].OFF2 = LowTerm(61)
            /\ comp[1].SENS2 = LowTerm(29)
        /\ ComputedTEMP < -1500 =>
            /\ comp[1].OFF2 = WideAdd(LowTerm(61), ExtraTerm(17))
            /\ comp[1].SENS2 = WideAdd(LowTerm(29), ExtraTerm(9))

\* A compensation with TEMP exactly 2000 for which the two formulas of T2 differ
C11_Witness ==
    /\ Computed
    /\ ComputedTEMP = 2000
    /\ T2_from_2000 # T2_below_2000

(* C12: no step of the compensation overflows.  For coefficient words in       *)
(* 0..65535 and raw values in 1..2^24-1, Tref, dT and TEMP fit a signed 32-bit *)
(* integer, and every other value computed on the way (dT*TEMPSENS, dT*dT and  *)
(* 3 or 5 times it, the terms of OFF2 and SENS2, OFF, SENS, adc_pressure*SENS, *)
(* P) fits a signed 64-bit integer.                                            *)
C12_NoOverflow ==
    Computed =>
        /\ \A i \in 1..MS5805_COEFFICIENT_COUNT - 1 : comp_in.coeff[i] \in 0..MaxWord
        /\ comp_in.adc_temperature \in 1..MaxAdc
        /\ comp_in.adc_pressure \in 1..MaxAdc
        /\ WideFits(comp[1].dT, 32)
        /\ WideFits(comp[1].TEMP, 32)
        /\ \A k \in DOMAIN comp[1].int32 : WideFits(comp[1].int32[k], 32)
        /\ WideFits(comp[1].dT_TEMPSENS, 64)
        /\ WideFits(comp[1].times, 64)
        /\ WideFits(comp[1].D1_SENS, 64)
        /\ \A k \in DOMAIN comp[1].int64 : WideFits(comp[1].int64[k], 64)
        /\ comp[1].defined

\* A compensation at the end of the ranges whose product adc_pressure * SENS needs
\* 63 of the 64 bits
C12_Witness ==
    /\ Computed
    /\ comp_in.adc_pressure = MaxAdc
    /\ \A i \in 1..MS5805_COEFFICIENT_COUNT - 1 : comp_in.coeff[i] \in {0, MaxWord}
    /\ ~WideFits(comp[1].D1_SENS, 62)

----------------------------------------------------------------------------
(* C13: reset makes exactly one bus transaction, a write of the single byte    *)
(* 0x1E to address 0x76, sent once whatever its outcome, and returns           *)
(* ms5805_status_ok when the transport reports 0, ms5805_status_no_i2c_acknowledge *)
(* when it reports the overflow status, ms5805_status_i2c_transfer_error for   *)
(* every other status.                                                         *)
C13_ResetOneWrite ==
    call = "reset" =>
        /\ Len(bus) = 1
        /\ bus[1].op = "write"
        /\ bus[1].addr = 118
        /\ bus[1].arg = 30
        /\ ret = IF bus[1].st = 0
                 THEN ms5805_status_ok
                 ELSE IF bus[1].st = ms5805_STATUS_ERR_OVERFLOW
                 THEN ms5805_status_no_i2c_acknowledge
                 ELSE ms5805_status_i2c_transfer_error

\* A reset whose write the transport ended with a status that is neither success
\* nor overflow
C13_Witness ==
    /\ call = "reset"
    /\ Len(bus) = 1
    /\ bus[1].st \notin {ms5805_STATUS_OK, ms5805_STATUS_ERR_OVERFLOW}
    /\ ret = ms5805_status_i2c_transfer_error

(* C14: is_connected returns true exactly when the transport ends an empty     *)
(* transmission to address 0x76 with status 0, and false for every other       *)
(* status; it sends no command byte, and it changes neither the resolution,    *)
(* nor the coefficient table, nor coeff_read.                                  *)
C14_IsConnected ==
    /\ [](call = "is_connected" =>
            /\ Len(bus) = 1
            /\ bus[1].op = "probe"
            /\ bus[1].addr = 118
            /\ bus[1].data = <<>>
            /\ (ret = "true") = (bus[1].st = 0)
            /\ (ret = "false") = (bus[1].st # 0))
    /\ [][call' = "is_connected" =>
            UNCHANGED <<ms5805_resolution_osr, eeprom_coeff, coeff_read>>]_vars

\* The coefficients loaded, then a probe the transport ended with a status other
\* than 0 and other than the overflow status
C14_Witness ==
    /\ call = "is_connected"
    /\ coeff_read
    /\ bus[1].st \notin {ms5805_STATUS_OK, ms5805_STATUS_ERR_OVERFLOW}
    /\ ret = "false"

(* C15: only set_resolution changes the resolution: every other call, a        *)
(* measurement that fails included, leaves it as it was; set_resolution makes  *)
(* no bus operation and changes neither the coefficient table nor coeff_read;  *)
(* and each conversion command of a measurement is 0x50 or 0x40 with twice the *)
(* resolution the object holds, that is the last one set.                      *)
C15_ResolutionFrame ==
    [][/\ call' # "set_resolution" => ms5805_resolution_osr' = ms5805_resolution_osr
       /\ call' = "set_resolution" =>
            /\ bus' = <<>>
            /\ UNCHANGED <<eeprom_coeff, coeff_read>>
       /\ call' = "read_temperature_and_pressure" =>
            \A k \in DOMAIN bus' :
                IsConversionStart(bus'[k]) =>
                    bus'[k].arg \in {80 + 2 * ms5805_resolution_osr,
                                     64 + 2 * ms5805_resolution_osr}]_vars

\* A measurement on coefficients loaded by an earlier call, at OSR 8192: both
\* conversion commands, 0x5A and 0x4A, were sent
C15_Witness ==
    /\ ReadCall
    /\ coeff_read
    /\ NoPromTraffic(bus)
    /\ ms5805_resolution_osr = 5
    /\ \E k \in DOMAIN bus : bus[k].op = "write" /\ bus[k].arg = 90
    /\ \E k \in DOMAIN bus : bus[k].op = "write" /\ bus[k].arg = 74

----------------------------------------------------------------------------
(* The order of the exchanges of a measurement *)

\* The four exchanges of one conversion, from position i on: the command, the wait,
\* the write of 0x00, the 3-byte read
ConversionAt(b, i, cmd) ==
    /\ b[i].op = "write" /\ b[i].addr = 118 /\ b[i].arg = cmd
    /\ b[i + 1].op = "delay"
    /\ b[i + 2].op = "write" /\ b[i + 2].addr = 118 /\ b[i + 2].arg = 0
    /\ IsAdcRead(b[i + 3]) /\ b[i + 3].addr = 118

\* The log is n exchanges of PROM reading followed by none, one or two conversions,
\* the temperature one first
MeasurementOrder(b, n, res) ==
    /\ n <= Len(b)
    /\ Len(b) - n \in {0, 4, 8}
    /\ \A k \in 1..n : IsPromSelect(b[k]) \/ IsPromRead(b[k])
    /\ \A k \in (n + 1)..Len(b) : ~IsPromSelect(b[k]) /\ ~IsPromRead(b[k])
    /\ Len(b) - n >= 4 => ConversionAt(b, n + 1, 80 + 2 * res)
    /\ Len(b) - n = 8 => ConversionAt(b, n + 5, 64 + 2 * res)

\* The numbers of exchanges a PROM load makes: two per word read
PromLengths == {2 * k : k \in 0..MS5805_COEFFICIENT_COUNT}

(* C16: a read_temperature_and_pressure call puts on the bus, in this order,   *)
(* the PROM reads (only when coeff_read was false), then the command           *)
(* (resolution*2)|0x50, the wait, a write of 0x00 and a 3-byte read, then the  *)
(* command (resolution*2)|0x40, the wait, a write of 0x00 and a 3-byte read.   *)
(* No conversion command is sent when the load returned an error (coeff_read   *)
(* is still false), and the pressure command is not sent when the temperature  *)
(* conversion returned an error (the call then returns that error).            *)
C16_ProtocolOrder ==
    /\ [](ReadCall =>
            /\ \E n \in PromLengths : MeasurementOrder(bus, n, ms5805_resolution_osr)
            /\ ~coeff_read => NoConversion(bus)
            /\ coeff_read => ~NoConversion(bus)
            /\ \A k \in DOMAIN bus :
                (bus[k].op = "write" /\ bus[k].arg = 0 /\ bus[k].st # ms5805_STATUS_OK)
                    => Len(bus) = k + 1
            /\ ret = ms5805_status_ok =>
                Cardinality({k \in DOMAIN bus : IsConversionStart(bus[k])}) = 2)
    /\ [][call' = "read_temperature_and_pressure" =>
            /\ coeff_read => NoPromTraffic(bus')
            /\ ~coeff_read => IsPromSelect(bus'[1])]_vars

\* A first measurement that went through: the 7 PROM reads, then both conversions
C16_Witness ==
    /\ ReadCall
    /\ ret = ms5805_status_ok
    /\ Len(bus) = 2 * MS5805_COEFFICIENT_COUNT + 8
    /\ MeasurementOrder(bus, 2 * MS5805_COEFFICIENT_COUNT, ms5805_resolution_osr)

----------------------------------------------------------------------------
(* C17: the wait of every conversion is well defined: the index                *)
(* (cmd & 0x0F) / 2 of each conversion command of a measurement equals the     *)
(* resolution of the object and lies in 0..5, and the wait that follows the    *)
(* command is the entry of {1, 2, 3, 5, 9, 17} ms at that index, also on an    *)
(* object on which set_resolution was never called.                            *)
C17_WaitWellDefined ==
    ReadCall =>
        \A k \in DOMAIN bus :
            IsConversionStart(bus[k]) =>
                /\ (bus[k].arg % 16) \div 2 = ms5805_resolution_osr
                /\ (bus[k].arg % 16) \div 2 \in 0..5
                /\ bus[k + 1].op = "delay"
                /\ bus[k + 1].arg = <<1, 2, 3, 5, 9, 17>>[(bus[k].arg % 16) \div 2 + 1]

(* C18: the status of a conversion depends on the bus outcomes of the call     *)
(* only: a read_temperature_and_pressure call in which every bus exchange      *)
(* succeeds, the coefficients are validated (the CRC matches) and both raw     *)
(* values read are non-zero returns ms5805_status_ok.                          *)
C18_StatusFromBus ==
    (/\ ReadCall
     /\ AllAcknowledged(bus)
     /\ coeff_read
     /\ \A k \in DOMAIN bus : IsAdcRead(bus[k]) => bus[k].data # <<0, 0, 0>>)
        => ret = ms5805_status_ok

----------------------------------------------------------------------------
(* The raw value of the 3 bytes of an ADC read, most significant byte first *)
AdcValue(x) == x.data[1] * 65536 + x.data[2] * 256 + x.data[3]

(* C19: the outputs are written only on success.  A read_temperature_and_pressure *)
(* call that returns a status other than ms5805_status_ok leaves the caller's  *)
(* temperature and pressure exactly as they were before the call; a call that  *)
(* returns ms5805_status_ok writes both, with the compensation of the two raw  *)
(* values it read.                                                             *)
C19_OutputsOnSuccess ==
    [][call' = "read_temperature_and_pressure" =>
        /\ ret' # ms5805_status_ok => UNCHANGED <<temperature, pressure>>
        /\ ret' = ms5805_status_ok =>
            /\ Len(bus') >= 8
            /\ IsAdcRead(bus'[Len(bus') - 4])
            /\ IsAdcRead(bus'[Len(bus')])
            /\ <<temperature', pressure'>> =
                    measured(eeprom_coeff', AdcValue(bus'[Len(bus') - 4]),
                             AdcValue(bus'[Len(bus')]))
            /\ temperature' # IndeterminateFloat
            /\ pressure' # IndeterminateFloat]_vars

\* A measurement stopped by the zero guard after an earlier one had written the
\* outputs: they still hold the values written then
C19_Witness ==
    /\ ReadCall
    /\ ret = ms5805_status_i2c_transfer_error
    /\ AllAcknowledged(bus)
    /\ \E k \in DOMAIN bus : IsAdcRead(bus[k]) /\ AdcValue(bus[k]) = 0
    /\ temperature # IndeterminateFloat
    /\ pressure # IndeterminateFloat

====
